---------------------------- MODULE Spec2Model ----------------------------
(***************************************************************************)
(* Model of album-duplicate-finder.py: normalize_text, is_header,          *)
(* find_potential_duplicates and the line reader of main.                  *)
(*                                                                         *)
(* A text is a sequence of characters; a character is a short string that  *)
(* names one code point:                                                   *)
(*   "A" "T" "M"        upper-case letters (str.lower maps them)           *)
(*   "a" "b" "c" ...    lower-case letters                                 *)
(*   "e_acute"          U+00E9, decomposes to "e" + "acute"                *)
(*   "acute"            U+0301, a combining mark                           *)
(*   "tm"               U+2122 TRADE MARK SIGN: str.lower leaves it alone, *)
(*                      NFKD decomposes it to "T" "M"                      *)
(*   " " "tab"          white space (matched by \s, stripped by strip)     *)
(*   "-"                hyphen                                             *)
(***************************************************************************)
EXTENDS Integers, Sequences, FiniteSets

VARIABLES
    file,                     \* main: the lines of the input file
    similarity_threshold,     \* the threshold, in hundredths
    albums_with_line_numbers, \* main: the (line_number, text) pairs read
    filtered_albums,          \* find_potential_duplicates: non-header pairs
    header_count,             \* number of header rows skipped
    normalized_albums,        \* (line_num, original, normalized) triples
    artist_groups,            \* insertion-ordered dict: artist -> albums
    warnings,                 \* line numbers a format warning was printed for
    potential_duplicates,     \* the groups returned
    compared,                 \* pairs of line numbers handed to SequenceMatcher
    g,                        \* position of the outer loop in artist_groups
    i,                        \* position of the anchor loop in the group
    pc,                       \* position of the pipeline
    text,                     \* normalize_text: the local variable text
    n_input,                  \* normalize_text: the argument of the first call
    n_first,                  \* the value the first call returned
    n_calls,                  \* how many calls have returned
    n_pc                      \* position inside normalize_text

vars == <<file, similarity_threshold, albums_with_line_numbers,
          filtered_albums, header_count, normalized_albums, artist_groups,
          warnings, potential_duplicates, compared, g, i, pc,
          text, n_input, n_first, n_calls, n_pc>>

pipeVars == <<file, similarity_threshold, albums_with_line_numbers,
              filtered_albums, header_count, normalized_albums,
              artist_groups, warnings, potential_duplicates, compared,
              g, i, pc>>

normVars == <<text, n_input, n_first, n_calls, n_pc>>

-----------------------------------------------------------------------------
(* Bounds *)

\* longest file read, in lines
MaxLines == 3

\* longest text handed to normalize_text on its own
NormLen == 3

-----------------------------------------------------------------------------
(* Sequence helpers *)

RECURSIVE Flatten(_)
Flatten(ss) ==
    IF ss = <<>> THEN <<>> ELSE Head(ss) \o Flatten(Tail(ss))

Range(s) == {s[k] : k \in 1..Len(s)}

\* all sequences over S of length 0..n
SeqsUpTo(S, n) == UNION {[1..k -> S] : k \in 0..n}

-----------------------------------------------------------------------------
(* Character tables *)

\* str.lower on one character
LowerChar(c) ==
    CASE c = "A" -> "a"
      [] c = "T" -> "t"
      [] c = "M" -> "m"
      [] OTHER -> c

\* unicodedata.normalize('NFKD', c) on one character
NFKDChar(c) ==
    CASE c = "e_acute" -> <<"e", "acute">>
      [] c = "tm" -> <<"T", "M">>
      [] OTHER -> <<c>>

\* unicodedata.combining(c) != 0
Combining(c) == c = "acute"

\* the characters \s matches and str.strip removes
IsSpace(c) == c \in {" ", "tab"}

-----------------------------------------------------------------------------
(* normalize_text, one operator per statement *)

\* text.lower()
Lower(t) == [k \in 1..Len(t) |-> LowerChar(t[k])]

\* unicodedata.normalize('NFKD', text)
Decompose(t) == Flatten([k \in 1..Len(t) |-> NFKDChar(t[k])])

\* ''.join([c for c in text if not unicodedata.combining(c)])
DropCombining(t) == SelectSeq(t, LAMBDA c : ~Combining(c))

\* str.strip()
RECURSIVE LStrip(_)
LStrip(t) ==
    IF t # <<>> /\ IsSpace(Head(t)) THEN LStrip(Tail(t)) ELSE t

RECURSIVE RStrip(_)
RStrip(t) ==
    IF t # <<>> /\ IsSpace(t[Len(t)])
    THEN RStrip(SubSeq(t, 1, Len(t) - 1))
    ELSE t

Strip(t) == RStrip(LStrip(t))

\* re.sub(r'\s+', ' ', text)
RECURSIVE CollapseSpaces(_)
CollapseSpaces(t) ==
    IF t = <<>> THEN <<>>
    ELSE IF IsSpace(Head(t))
         THEN <<" ">> \o CollapseSpaces(LStrip(t))
         ELSE <<Head(t)>> \o CollapseSpaces(Tail(t))

RemoveExtraSpaces(t) == Strip(CollapseSpaces(t))

normalize_text(t) ==
    RemoveExtraSpaces(DropCombining(Decompose(Lower(t))))

\* the literal ' - '
Sep == <<" ", "-", " ">>

\* the list is_header tests membership in
HeaderTitle ==
    <<"a", "r", "t", "i", "s", "t", " ", "-", " ", "t", "i", "t", "l", "e">>

HeaderAlbum ==
    <<"a", "r", "t", "i", "s", "t", " ", "-", " ", "a", "l", "b", "u", "m">>

\* variant: the second literal of the list left out
is_header_title_only(t) == normalize_text(t) \in {HeaderTitle}

\* normalized in ["artist - title", "artist - album"]
is_header(t) == normalize_text(t) \in {HeaderTitle, HeaderAlbum}

-----------------------------------------------------------------------------
(* str.split, the in operator *)

\* the first position (1-based) where sep occurs in s, 0 when it does not
Find(s, sep) ==
    LET hits == {k \in 1..(Len(s) - Len(sep) + 1) :
                     SubSeq(s, k, k + Len(sep) - 1) = sep}
    IN  IF hits = {} THEN 0 ELSE CHOOSE k \in hits : \A h \in hits : k <= h

\* sep in s
Contains(s, sep) == Find(s, sep) # 0

\* s.split(sep): always at least one part
RECURSIVE Split(_, _)
Split(s, sep) ==
    LET k == Find(s, sep)
    IN  IF k = 0 THEN <<s>>
        ELSE <<SubSeq(s, 1, k - 1)>> \o
             Split(SubSeq(s, k + Len(sep), Len(s)), sep)

\* s.split(sep, 1)
SplitOnce(s, sep) ==
    LET k == Find(s, sep)
    IN  IF k = 0 THEN <<s>>
        ELSE <<SubSeq(s, 1, k - 1), SubSeq(s, k + Len(sep), Len(s))>>

-----------------------------------------------------------------------------
(* difflib.SequenceMatcher(None, a, b).ratio()                             *)
(* Positions are 0-based and ranges half-open, as in difflib.  No element  *)
(* is junk (isjunk is None) and the autojunk heuristic only acts on a      *)
(* second sequence of 200 elements or more, longer than any text here.     *)

Min(x, y) == IF x <= y THEN x ELSE y

\* a[x:x+k] == b[y:y+k]
BlockMatches(a, b, x, y, k) == \A d \in 1..k : a[x + d] = b[y + d]

\* find_longest_match: the longest block, of those the one starting
\* earliest in a, of those the one starting earliest in b
FindLongestMatch(a, b, alo, ahi, blo, bhi) ==
    LET blocks == {m \in (alo..(ahi - 1)) \X (blo..(bhi - 1)) \X
                         (1..Min(ahi - alo, bhi - blo)) :
                      /\ m[1] + m[3] <= ahi
                      /\ m[2] + m[3] <= bhi
                      /\ BlockMatches(a, b, m[1], m[2], m[3])}
        Before(m, n) ==
            \/ m[3] > n[3]
            \/ m[3] = n[3] /\ m[1] < n[1]
            \/ m[3] = n[3] /\ m[1] = n[1] /\ m[2] <= n[2]
    IN  IF blocks = {} THEN <<alo, blo, 0>>
        ELSE CHOOSE m \in blocks : \A n \in blocks : Before(m, n)

\* get_matching_blocks: the total size of the blocks found by matching the
\* longest block, then the pieces to its left, then the pieces to its right
RECURSIVE MatchedSize(_, _, _, _, _, _)
MatchedSize(a, b, alo, ahi, blo, bhi) ==
    LET m == FindLongestMatch(a, b, alo, ahi, blo, bhi)
        x == m[1]
        y == m[2]
        k == m[3]
    IN  IF k = 0 THEN 0
        ELSE k
             + (IF alo < x /\ blo < y
                THEN MatchedSize(a, b, alo, x, blo, y) ELSE 0)
             + (IF x + k < ahi /\ y + k < bhi
                THEN MatchedSize(a, b, x + k, ahi, y + k, bhi) ELSE 0)

\* variant: ratio() without its length-0 case (0.0 for two empty texts)
RatioNoLengthCheck(a, b) ==
    [num |-> 2 * MatchedSize(a, b, 0, Len(a), 0, Len(b)),
     den |-> Len(a) + Len(b) + (IF Len(a) + Len(b) = 0 THEN 1 ELSE 0)]

\* ratio(): 2.0 * matches / length, 1.0 when length is 0; kept as a fraction
Ratio(a, b) ==
    IF Len(a) + Len(b) = 0
    THEN [num |-> 1, den |-> 1]
    ELSE [num |-> 2 * MatchedSize(a, b, 0, Len(a), 0, Len(b)),
          den |-> Len(a) + Len(b)]

\* variant: > for >=
MeetsThresholdStrict(similarity, threshold) ==
    similarity.num * 100 > threshold * similarity.den

\* variant: <= for >=
MeetsThresholdInverted(similarity, threshold) ==
    similarity.num * 100 <= threshold * similarity.den

\* similarity >= similarity_threshold, the threshold in hundredths.  The
\* fractions here have denominators far too small for a float quotient to
\* round across the threshold, so the exact comparison is the float one.
MeetsThreshold(similarity, threshold) ==
    similarity.num * 100 >= threshold * similarity.den

-----------------------------------------------------------------------------
(* main: reading the file *)

\* the lines a file may hold
Lines ==
    { <<" ">>,                                            \* blank
      <<"A", " ", "-", " ", "c", "e">>,                   \* A - ce
      <<"a", "tab", "-", " ", " ", "c", "e_acute">>,      \* a<tab>-  c(e-acute)
      <<"a", " ", "-", " ", "c", "e", "d">>,              \* a - ced
      <<"a", " ", "-", " ", "d">>,                        \* a - d
      <<"b", " ", "-", " ", "c", "e", " ">>,              \* b - ce, trailing blank
      <<"c", "e">>,                                       \* ce: no separator
      <<"acute">>,                                        \* a lone combining mark
      <<"A", "r", "t", "i", "s", "t", " ", "-", " ",
        "A", "l", "b", "u", "m">> }                       \* Artist - Album

\* the values --threshold takes here, in hundredths (0.85 is the default)
Thresholds == {0, 50, 85, 100}

\* for line_num, line in enumerate(f, 1): if line.strip(): append(...)
ReadLines(f) ==
    LET kept == SelectSeq([k \in 1..Len(f) |-> <<k, Strip(f[k])>>],
                          LAMBDA r : r[2] # <<>>)
    IN  kept

-----------------------------------------------------------------------------
(* find_potential_duplicates, statement by statement *)

\* the loop that fills filtered_albums
NonHeaders(albums) == SelectSeq(albums, LAMBDA r : ~is_header(r[2]))

\* the comprehension that builds normalized_albums
NormalizeAll(albums) ==
    [k \in 1..Len(albums) |->
        <<albums[k][1], albums[k][2], normalize_text(albums[k][2])>>]

\* normalized.split(' - ')[0] raises IndexError
RaisesIndexError(normalized) == Len(Split(normalized, Sep)) < 1

\* variant: index -1 for index 0
ArtistOfLastPart(normalized) ==
    LET parts == Split(normalized, Sep) IN Strip(parts[Len(parts)])

\* normalized.split(' - ')[0].strip()
ArtistOf(normalized) == Strip(Split(normalized, Sep)[1])

\* artist_groups[artist].append(rec) on an insertion-ordered defaultdict(list)
AppendToGroup(groups, artist, rec) ==
    IF \E k \in 1..Len(groups) : groups[k].artist = artist
    THEN [k \in 1..Len(groups) |->
            IF groups[k].artist = artist
            THEN [groups[k] EXCEPT !.albums = Append(@, rec)]
            ELSE groups[k]]
    ELSE Append(groups, [artist |-> artist, albums |-> <<rec>>])

\* the grouping loop: acc is [groups, warned]
RECURSIVE GroupAll(_, _)
GroupAll(recs, acc) ==
    IF recs = <<>> THEN acc
    ELSE LET rec == Head(recs)
         IN  IF RaisesIndexError(rec[3])
             THEN GroupAll(Tail(recs),
                           [acc EXCEPT !.warned = Append(@, rec[1])])
             ELSE GroupAll(Tail(recs),
                           [acc EXCEPT !.groups =
                               AppendToGroup(@, ArtistOf(rec[3]), rec)])

\* normalized.split(' - ', 1)[1] if ' - ' in normalized else normalized
AlbumOf(normalized) ==
    IF Contains(normalized, Sep)
    THEN SplitOnce(normalized, Sep)[2]
    ELSE normalized

\* variant: the normalized text for the original
OutputPairNormalized(rec) == <<rec[1], rec[3]>>

\* the pair (line_num, original) appended to duplicates_for_i
OutputPair(rec) == <<rec[1], rec[2]>>

\* variant: range(i, len(albums))
InnerStartAtAnchor(k) == k

\* the first j of range(i + 1, len(albums)), 1-based
InnerStart(k) == k + 1

\* the positions j the inner loop appends for anchor k
MatchesOf(albums, k, threshold) ==
    {j \in InnerStart(k)..Len(albums) :
        MeetsThreshold(Ratio(AlbumOf(albums[k][3]), AlbumOf(albums[j][3])),
                       threshold)}

\* duplicates_for_i after the inner loop
DuplicatesFor(albums, k, threshold) ==
    LET hit == MatchesOf(albums, k, threshold)
        later == SelectSeq([j \in 1..Len(albums) |-> j],
                           LAMBDA j : j \in hit)
    IN  <<OutputPair(albums[k])>> \o
        [n \in 1..Len(later) |-> OutputPair(albums[later[n]])]

\* variant: >= 1 for > 1
EmitsAlways(d) == Len(d) >= 1

\* if len(duplicates_for_i) > 1
Emits(d) == Len(d) > 1

\* what one artist group contributes to potential_duplicates
RECURSIVE GroupDuplicates(_, _, _)
GroupDuplicates(albums, k, threshold) ==
    IF Len(albums) <= 1 \/ k > Len(albums) THEN <<>>
    ELSE LET d == DuplicatesFor(albums, k, threshold)
         IN  (IF Emits(d) THEN <<d>> ELSE <<>>) \o
             GroupDuplicates(albums, k + 1, threshold)

\* find_potential_duplicates as a function of its two arguments
find_potential_duplicates(albums, threshold) ==
    LET grouped == GroupAll(NormalizeAll(NonHeaders(albums)),
                            [groups |-> <<>>, warned |-> <<>>])
    IN  Flatten([k \in 1..Len(grouped.groups) |->
                    GroupDuplicates(grouped.groups[k].albums, 1, threshold)])

-----------------------------------------------------------------------------
(* The run of main and find_potential_duplicates *)

Init ==
    /\ file \in SeqsUpTo(Lines, MaxLines)
    /\ similarity_threshold \in Thresholds
    /\ albums_with_line_numbers = <<>>
    /\ filtered_albums = <<>>
    /\ header_count = 0
    /\ normalized_albums = <<>>
    /\ artist_groups = <<>>
    /\ warnings = <<>>
    /\ potential_duplicates = <<>>
    /\ compared = {}
    /\ g = 1
    /\ i = 1
    /\ pc = "read"
    /\ text = <<>>
    /\ n_input = <<>>
    /\ n_first = <<>>
    /\ n_calls = 0
    /\ n_pc = "idle"

\* main: the file is read, blank lines skipped
ReadFile ==
    /\ pc = "read"
    /\ albums_with_line_numbers' = ReadLines(file)
    /\ pc' = "filter"
    /\ UNCHANGED <<file, similarity_threshold, filtered_albums, header_count,
                   normalized_albums, artist_groups, warnings,
                   potential_duplicates, compared, g, i>>
    /\ UNCHANGED normVars

\* the header loop
SkipHeaders ==
    /\ pc = "filter"
    /\ filtered_albums' = NonHeaders(albums_with_line_numbers)
    /\ header_count' = Len(albums_with_line_numbers)
                       - Len(NonHeaders(albums_with_line_numbers))
    /\ pc' = "normalize"
    /\ UNCHANGED <<file, similarity_threshold, albums_with_line_numbers,
                   normalized_albums, artist_groups, warnings,
                   potential_duplicates, compared, g, i>>
    /\ UNCHANGED normVars

\* the comprehension
Normalize ==
    /\ pc = "normalize"
    /\ normalized_albums' = NormalizeAll(filtered_albums)
    /\ pc' = "group"
    /\ UNCHANGED <<file, similarity_threshold, albums_with_line_numbers,
                   filtered_albums, header_count, artist_groups, warnings,
                   potential_duplicates, compared, g, i>>
    /\ UNCHANGED normVars

\* the grouping loop
GroupByArtist ==
    /\ pc = "group"
    /\ LET grouped == GroupAll(normalized_albums,
                               [groups |-> <<>>, warned |-> <<>>])
       IN  /\ artist_groups' = grouped.groups
           /\ warnings' = grouped.warned
    /\ g' = 1
    /\ i' = 1
    /\ pc' = "match"
    /\ UNCHANGED <<file, similarity_threshold, albums_with_line_numbers,
                   filtered_albums, header_count, normalized_albums,
                   potential_duplicates, compared>>
    /\ UNCHANGED normVars

\* if len(albums) <= 1: continue
SkipGroup ==
    /\ pc = "match"
    /\ g <= Len(artist_groups)
    /\ Len(artist_groups[g].albums) <= 1
    /\ g' = g + 1
    /\ i' = 1
    /\ UNCHANGED <<file, similarity_threshold, albums_with_line_numbers,
                   filtered_albums, header_count, normalized_albums,
                   artist_groups, warnings, potential_duplicates, compared,
                   pc>>
    /\ UNCHANGED normVars

\* one pass of the loop over i, its inner loop over j included
MatchAnchor ==
    /\ pc = "match"
    /\ g <= Len(artist_groups)
    /\ Len(artist_groups[g].albums) > 1
    /\ LET albums == artist_groups[g].albums
           duplicates_for_i == DuplicatesFor(albums, i, similarity_threshold)
       IN  /\ compared' = compared \cup
                  {<<albums[i][1], albums[j][1]>> :
                       j \in InnerStart(i)..Len(albums)}
           /\ potential_duplicates' =
                  IF Emits(duplicates_for_i)
                  THEN Append(potential_duplicates, duplicates_for_i)
                  ELSE potential_duplicates
           /\ IF i < Len(albums)
              THEN g' = g /\ i' = i + 1
              ELSE g' = g + 1 /\ i' = 1
    /\ UNCHANGED <<file, similarity_threshold, albums_with_line_numbers,
                   filtered_albums, header_count, normalized_albums,
                   artist_groups, warnings, pc>>
    /\ UNCHANGED normVars

\* return potential_duplicates
Return ==
    /\ pc = "match"
    /\ g > Len(artist_groups)
    /\ pc' = "done"
    /\ UNCHANGED <<file, similarity_threshold, albums_with_line_numbers,
                   filtered_albums, header_count, normalized_albums,
                   artist_groups, warnings, potential_duplicates, compared,
                   g, i>>
    /\ UNCHANGED normVars

Next ==
    \/ ReadFile
    \/ SkipHeaders
    \/ Normalize
    \/ GroupByArtist
    \/ SkipGroup
    \/ MatchAnchor
    \/ Return

Spec == Init /\ [][Next]_vars

-----------------------------------------------------------------------------
(* normalize_text on its own, applied to a text and then to its result *)

\* the characters of the texts normalize_text is given
NormAlphabet == {"A", "a", "e_acute", "acute", "tm", " ", "tab", "-"}

InitNorm ==
    /\ n_input \in SeqsUpTo(NormAlphabet, NormLen)
    /\ text = n_input
    /\ n_first = <<>>
    /\ n_calls = 0
    /\ n_pc = "lower"
    /\ file = <<>>
    /\ similarity_threshold = 85
    /\ albums_with_line_numbers = <<>>
    /\ filtered_albums = <<>>
    /\ header_count = 0
    /\ normalized_albums = <<>>
    /\ artist_groups = <<>>
    /\ warnings = <<>>
    /\ potential_duplicates = <<>>
    /\ compared = {}
    /\ g = 1
    /\ i = 1
    /\ pc = "idle"

\* text = text.lower()
NormLower ==
    /\ n_pc = "lower"
    /\ text' = Lower(text)
    /\ n_pc' = "decompose"
    /\ UNCHANGED <<n_input, n_first, n_calls>>
    /\ UNCHANGED pipeVars

\* text = unicodedata.normalize('NFKD', text)
NormDecompose ==
    /\ n_pc = "decompose"
    /\ text' = Decompose(text)
    /\ n_pc' = "combining"
    /\ UNCHANGED <<n_input, n_first, n_calls>>
    /\ UNCHANGED pipeVars

\* text = ''.join([c for c in text if not unicodedata.combining(c)])
NormDropCombining ==
    /\ n_pc = "combining"
    /\ text' = DropCombining(text)
    /\ n_pc' = "spaces"
    /\ UNCHANGED <<n_input, n_first, n_calls>>
    /\ UNCHANGED pipeVars

\* text = re.sub(r'\s+', ' ', text).strip()
NormSpaces ==
    /\ n_pc = "spaces"
    /\ text' = RemoveExtraSpaces(text)
    /\ n_pc' = "return"
    /\ UNCHANGED <<n_input, n_first, n_calls>>
    /\ UNCHANGED pipeVars

\* return text
NormReturn ==
    /\ n_pc = "return"
    /\ n_calls' = n_calls + 1
    /\ n_first' = IF n_calls = 0 THEN text ELSE n_first
    /\ n_pc' = "returned"
    /\ UNCHANGED <<text, n_input>>
    /\ UNCHANGED pipeVars

\* normalize_text is called on the value it returned
NormAgain ==
    /\ n_pc = "returned"
    /\ n_calls = 1
    /\ n_pc' = "lower"
    /\ UNCHANGED <<text, n_input, n_first, n_calls>>
    /\ UNCHANGED pipeVars

NextNorm ==
    \/ NormLower
    \/ NormDecompose
    \/ NormDropCombining
    \/ NormSpaces
    \/ NormReturn
    \/ NormAgain

SpecNorm == InitNorm /\ [][NextNorm]_vars

-----------------------------------------------------------------------------
(* Vocabulary of the properties *)

Done == pc = "done"

\* a header record, by the two literal texts
IsHeaderText(raw) ==
    \/ normalize_text(raw) = HeaderTitle
    \/ normalize_text(raw) = HeaderAlbum

\* the records of the input that are not headers
NonHeaderRecords == {r \in Range(albums_with_line_numbers) : ~IsHeaderText(r[2])}

\* the trimmed part of a normalized text before its first ' - '; the whole
\* text when it holds none
ArtistKey(normalized) ==
    LET k == Find(normalized, Sep)
    IN  IF k = 0 THEN Strip(normalized)
        ELSE Strip(SubSeq(normalized, 1, k - 1))

\* the part of a normalized text after its first ' - '; the whole text when
\* it holds none
AlbumTitle(normalized) ==
    LET k == Find(normalized, Sep)
    IN  IF k = 0 THEN normalized
        ELSE SubSeq(normalized, k + Len(Sep), Len(normalized))

\* the text read at a line number
RawAt(l) == Strip(file[l])

KeyAt(l) == ArtistKey(normalize_text(RawAt(l)))

\* the line numbers of a returned group
LinesOf(grp) == {grp[k][1] : k \in 1..Len(grp)}

Groups == Range(potential_duplicates)

\* the positions of potential_duplicates whose group holds line l
GroupsHolding(l) ==
    {n \in 1..Len(potential_duplicates) : l \in LinesOf(potential_duplicates[n])}

\* the positions of potential_duplicates whose anchor is line l
GroupsAnchoredAt(l) ==
    {n \in 1..Len(potential_duplicates) : potential_duplicates[n][1][1] = l}

-----------------------------------------------------------------------------
(* C1: a non-header record whose normalized text holds no ' - ' is in no    *)
(* artist group and in no returned group, and exactly one warning names    *)
(* its line number.                                                        *)
C1_NoSeparatorExcludedAndWarned ==
    Done =>
        \A r \in NonHeaderRecords :
            ~Contains(normalize_text(r[2]), Sep) =>
                /\ GroupsHolding(r[1]) = {}
                /\ \A k \in 1..Len(artist_groups) :
                       \A m \in 1..Len(artist_groups[k].albums) :
                           artist_groups[k].albums[m][1] # r[1]
                /\ Cardinality({w \in 1..Len(warnings) :
                                    warnings[w] = r[1]}) = 1

(* C2, as stated: no line number occurs in two different returned groups.  *)
C2_AtMostOneGroupPerRecord ==
    Done =>
        \A l \in 1..Len(file) : Cardinality(GroupsHolding(l)) <= 1

(* C2, amended: a record occurs at most once inside any returned group and *)
(* anchors at most one group; every group that holds it as a match is      *)
(* anchored at an earlier line.                                            *)
C2_OncePerAnchor ==
    Done =>
        /\ \A grp \in Groups :
               \A p, q \in 1..Len(grp) : p # q => grp[p][1] # grp[q][1]
        /\ \A l \in 1..Len(file) :
               /\ Cardinality(GroupsAnchoredAt(l)) <= 1
               /\ \A n \in GroupsHolding(l) \ GroupsAnchoredAt(l) :
                      potential_duplicates[n][1][1] < l

\* a record is held by two groups: the anchor of one, a match of the other
C2_Witness ==
    /\ Done
    /\ \E l \in 1..Len(file) :
           /\ Cardinality(GroupsHolding(l)) >= 2
           /\ GroupsAnchoredAt(l) # {}

(* C3: for every threshold t2 at or above the threshold of the run, every  *)
(* group returned at t2 has the anchor of a group returned by the run and  *)
(* only members of that group.                                             *)
C3_MonotoneInThreshold ==
    Done =>
        \A t2 \in Thresholds :
            t2 >= similarity_threshold =>
                \A grp2 \in Range(find_potential_duplicates(
                                      albums_with_line_numbers, t2)) :
                    \E grp1 \in Groups :
                        /\ grp1[1] = grp2[1]
                        /\ Range(grp2) \subseteq Range(grp1)

\* a higher threshold returns some groups, but fewer members than the run
C3_Witness ==
    /\ Done
    /\ \E t2 \in Thresholds :
           LET higher == find_potential_duplicates(albums_with_line_numbers, t2)
           IN  /\ t2 > similarity_threshold
               /\ higher # <<>>
               /\ Len(higher) < Len(potential_duplicates)
               /\ \E grp2 \in Range(higher) : \E grp1 \in Groups :
                      grp1[1] = grp2[1] /\ Len(grp2) < Len(grp1)

C5_SameArtistOnly ==
    /\ \A c \in compared : KeyAt(c[1]) = KeyAt(c[2])
    /\ \A grp \in Groups :
           \A p, q \in 1..Len(grp) : KeyAt(grp[p][1]) = KeyAt(grp[q][1])

\* threshold 0, records of two artists, and a group returned
C5_Witness ==
    /\ Done
    /\ similarity_threshold = 0
    /\ compared # {}
    /\ potential_duplicates # <<>>
    /\ \E r1, r2 \in NonHeaderRecords :
           /\ ArtistKey(normalize_text(r1[2])) # ArtistKey(normalize_text(r2[2]))
           /\ AlbumTitle(normalize_text(r1[2])) = AlbumTitle(normalize_text(r2[2]))

(* C6: no header record is in filtered_albums, in an artist group or in a  *)
(* returned group.                                                         *)
C6_HeadersNeverGrouped ==
    /\ \A r \in Range(filtered_albums) : ~IsHeaderText(r[2])
    /\ \A k \in 1..Len(artist_groups) :
           \A r \in Range(artist_groups[k].albums) : ~IsHeaderText(r[2])
    /\ \A grp \in Groups : \A r \in Range(grp) : ~IsHeaderText(r[2])

\* several identical header lines were read, at threshold 0
C6_Witness ==
    /\ Done
    /\ similarity_threshold = 0
    /\ header_count >= 2
    /\ \E r1, r2 \in Range(albums_with_line_numbers) :
           r1[1] # r2[1] /\ r1[2] = r2[2] /\ IsHeaderText(r1[2])

(* C7: normalize_text applied to a value it returned returns that value.   *)
C7_NormalizeIdempotent ==
    (n_calls = 2 /\ n_pc = "returned") => text = n_first

(* C8: in an artist group of two records or more, a group anchored at      *)
(* record k is returned iff a later record of the artist group has album   *)
(* similarity >= threshold; it is record k followed by exactly those       *)
(* records in ascending order.  Every returned group has two members or    *)
(* more, in input order.                                                   *)
C8_GroupIsAnchorPlusMatches ==
    Done =>
        /\ \A gi \in 1..Len(artist_groups) :
               LET albums == artist_groups[gi].albums
               IN  Len(albums) >= 2 =>
                   \A k \in 1..Len(albums) :
                       LET sim(j) == Ratio(AlbumTitle(albums[k][3]),
                                           AlbumTitle(albums[j][3]))
                           later == {j \in (k + 1)..Len(albums) :
                                        sim(j).num * 100 >=
                                        similarity_threshold * sim(j).den}
                           anchored == GroupsAnchoredAt(albums[k][1])
                       IN  /\ (anchored # {}) <=> (later # {})
                           /\ \A n \in anchored :
                                  LET grp == potential_duplicates[n]
                                  IN  /\ grp[1] = <<albums[k][1], albums[k][2]>>
                                      /\ Len(grp) = 1 + Cardinality(later)
                                      /\ Range(Tail(grp)) =
                                             {<<albums[j][1], albums[j][2]>> :
                                                  j \in later}
        /\ \A grp \in Groups :
               /\ Len(grp) >= 2
               /\ \A p, q \in 1..Len(grp) : p < q => grp[p][1] < grp[q][1]
               /\ \E gi \in 1..Len(artist_groups) :
                      /\ Len(artist_groups[gi].albums) >= 2
                      /\ \E k \in 1..Len(artist_groups[gi].albums) :
                             artist_groups[gi].albums[k][1] = grp[1][1]

\* at the default threshold a group is returned, and a record that has
\* later records of its artist anchors none
C8_Witness ==
    /\ Done
    /\ similarity_threshold = 85
    /\ \E grp \in Groups : Len(grp) >= 2
    /\ \E gi \in 1..Len(artist_groups) :
           /\ Len(artist_groups[gi].albums) >= 3
           /\ \E k \in 1..(Len(artist_groups[gi].albums) - 1) :
                  GroupsAnchoredAt(artist_groups[gi].albums[k][1]) = {}

(* C9: every pair of every returned group is a pair of the input: the line *)
(* number read and the text read at that line, not its normalized form.    *)
C9_OutputIsInput ==
    \A grp \in Groups :
        \A r \in Range(grp) :
            /\ r \in Range(albums_with_line_numbers)
            /\ r[2] = RawAt(r[1])

\* a returned group holds a record whose text is not its normalized form
C9_Witness ==
    /\ Done
    /\ \E grp \in Groups :
           \E r \in Range(grp) : normalize_text(r[2]) # r[2]

(* C10: every record anchors at most one returned group, the last record   *)
(* of an artist group anchors none, and the number of returned groups is   *)
(* at most the number of non-header records minus the number of distinct   *)
(* artist keys among them.                                                 *)
C10_GroupCountBound ==
    Done =>
        /\ \A l \in 1..Len(file) : Cardinality(GroupsAnchoredAt(l)) <= 1
        /\ \A gi \in 1..Len(artist_groups) :
               LET albums == artist_groups[gi].albums
               IN  GroupsAnchoredAt(albums[Len(albums)][1]) = {}
        /\ Len(potential_duplicates) <=
               Cardinality(NonHeaderRecords)
               - Cardinality({ArtistKey(normalize_text(r[2])) :
                                  r \in NonHeaderRecords})

\* the bound is met, by a record that anchors one group and is a match in
\* the group of an earlier anchor
C10_Witness ==
    /\ Done
    /\ Len(potential_duplicates) >= 2
    /\ Len(potential_duplicates) =
           Cardinality(NonHeaderRecords)
           - Cardinality({ArtistKey(normalize_text(r[2])) :
                              r \in NonHeaderRecords})
    /\ \E l \in 1..Len(file) :
           /\ GroupsAnchoredAt(l) # {}
           /\ GroupsHolding(l) \ GroupsAnchoredAt(l) # {}

=============================================================================
